---- MODULE Spec2Model ----
(***************************************************************************)
(* A model of the EggBot ornament builder (src/app.js): the debounced      *)
(* preview pipeline buildPreview (drawing import, SVG-font glyph layout,   *)
(* centering, commit to #previewContainer) and the export normalizer       *)
(* downloadSVG.                                                            *)
(*                                                                         *)
(* Numbers.  A JavaScript Number is modelled as an exact fraction          *)
(* [n |-> numerator, d |-> denominator] in lowest terms with d >= 0;       *)
(* d = 0 stands for the non-finite values: 1/0 is Infinity, -1/0 is        *)
(* -Infinity and 0/0 is NaN.  Rounding of IEEE doubles is not modelled.    *)
(***************************************************************************)
EXTENDS Integers, Sequences, FiniteSets, TLC

VARIABLES
    ctl,        \* the form controls: drawingSelect, fontSelect, message, fontSize, kerning
    pending,    \* debounce: the timeouts set by setTimeout and not yet run or cleared (ms left)
    t,          \* debounce: the closure variable t (0 = null, else index into pending)
    runs,       \* one record per buildPreview invocation (its locals and position)
    sink,       \* the children of #previewContainer, in order
    sinceEdit,  \* ms elapsed since the last debounced edit event (saturates at DebounceWait)
    burstRuns,  \* buildPreview runs the debounce started since the current burst began
    burstEdits, \* edit events of the current burst
    edits,      \* number of edit events so far
    lay,        \* the glyph-layout walk of one render, character by character
    exp,        \* the document the last step exported, if it was an export; in the
                \* export specification the scene, its export and the export of that
    san         \* the sanitizer's walk over the top-level children of one drawing

vars ==
    <<ctl, pending, t, runs, sink, sinceEdit, burstRuns, burstEdits, edits, lay, exp, san>>

----------------------------------------------------------------------------
(* Exact arithmetic on JavaScript Numbers *)

Abs(i) == IF i < 0 THEN -i ELSE i

Sign(i) == IF i < 0 THEN -1 ELSE IF i > 0 THEN 1 ELSE 0

RECURSIVE Gcd(_, _)
Gcd(a, b) == IF b = 0 THEN a ELSE Gcd(b, a % b)

\* n/d in lowest terms; a zero denominator keeps only the sign (Infinity, -Infinity, NaN)
Frac(n, d) ==
    IF d = 0 THEN [n |-> Sign(n), d |-> 0]
    ELSE LET g == Gcd(Abs(n), Abs(d))
             s == IF d < 0 THEN -1 ELSE 1
         IN [n |-> s * (n \div g), d |-> Abs(d) \div g]

Num(i) == [n |-> i, d |-> 1]

NaN == [n |-> 0, d |-> 0]

IsFinite(a) == a.d # 0

IsNaN(a) == a.d = 0 /\ a.n = 0

\* a + b
Add(a, b) ==
    IF IsNaN(a) \/ IsNaN(b) THEN NaN
    ELSE IF a.d = 0 /\ b.d = 0 THEN (IF a.n = b.n THEN a ELSE NaN)
    ELSE IF a.d = 0 THEN a
    ELSE IF b.d = 0 THEN b
    ELSE Frac(a.n * b.d + b.n * a.d, a.d * b.d)

Neg(a) == [n |-> -a.n, d |-> a.d]

Sub(a, b) == Add(a, Neg(b))

\* a * b  (Infinity * 0 is NaN)
Mul(a, b) == Frac(a.n * b.n, a.d * b.d)

\* a / b  (x / 0 is +-Infinity, 0 / 0 is NaN)
Div(a, b) ==
    IF IsNaN(a) \/ IsNaN(b) THEN NaN
    ELSE IF b.d = 0 THEN (IF a.d = 0 THEN NaN ELSE Num(0))
    ELSE IF b.n = 0 THEN Frac(a.n, 0)
    ELSE Frac(a.n * b.d * Sign(b.n), a.d * Abs(b.n))

\* a < b; every comparison with NaN is false
Less(a, b) ==
    IF IsNaN(a) \/ IsNaN(b) THEN FALSE
    ELSE IF a.d = 0 /\ b.d = 0 THEN a.n < b.n
    ELSE IF a.d = 0 THEN a.n < 0
    ELSE IF b.d = 0 THEN b.n > 0
    ELSE a.n * b.d < b.n * a.d

\* Math.max(a, b)
MathMax(a, b) == IF IsNaN(a) \/ IsNaN(b) THEN NaN ELSE IF Less(a, b) THEN b ELSE a

MathMin(a, b) == IF IsNaN(a) \/ IsNaN(b) THEN NaN ELSE IF Less(b, a) THEN b ELSE a

\* x || dflt on a Number: 0 and NaN are falsy
OrElse(a, dflt) == IF IsNaN(a) \/ (a.d # 0 /\ a.n = 0) THEN dflt ELSE a

----------------------------------------------------------------------------
(* Attributes.  A numeric attribute of a parsed document is <<>> when it is *)
(* absent or empty (getAttribute gives null or "", both falsy) and <<i>>    *)
(* when its text is the integer i ("0" is a truthy string).                 *)

\* Number(attr || dflt)
NumberOr(attr, dflt) == IF attr = <<>> THEN Num(dflt) ELSE Num(attr[1])

\* String.prototype.toLowerCase on one character
ToLowerCase(ch) ==
    CASE ch = "A" -> "a"
      [] ch = "B" -> "b"
      [] OTHER -> ch

\* message.trim().length > 0: some character is not white space
TrimNonEmpty(message) == \E i \in 1..Len(message) : message[i] # " "

----------------------------------------------------------------------------
(* DOM elements.  An element is a record of the attributes the program     *)
(* reads or writes; Absent is getAttribute's null.  style is the inline    *)
(* style attribute as a sequence of tokens: declarations ("fill:none",     *)
(* "stroke:none", "fill:red", "stroke:red", "stroke-width:0.01",           *)
(* "stroke-width:thick", "opacity:1") and the separator ";"; <<>> is no    *)
(* style attribute.  A transform is the sequence of its functions.         *)

Absent == "<absent>"

\* stroke-width texts: none, one the export's pattern /^\s*([0-9.]+)\s*(mm)?\s*$/
\* matches (value v, unit u, c = the text is String(v) followed by u), or another text
NoWidth == [k |-> "absent", v |-> NaN, u |-> "", c |-> FALSE]

WidthText(v, u, c) == [k |-> "num", v |-> v, u |-> u, c |-> c]

OtherWidth == [k |-> "other", v |-> NaN, u |-> "", c |-> FALSE]

Translate(x, y) == [op |-> "translate", a |-> x, b |-> y]

Scale(x, y) == [op |-> "scale", a |-> x, b |-> y]

\* document.createElementNS(svgNS, tag): no attributes, no children
CreateElement(tag) ==
    [tag |-> tag, d |-> <<>>, transform |-> <<>>, fill |-> Absent, stroke |-> Absent,
     sw |-> NoWidth, style |-> <<>>, ve |-> Absent, so |-> Absent,
     preview |-> FALSE, pstroke |-> FALSE, glyphs |-> FALSE, viewBox |-> <<>>,
     x |-> <<>>, y |-> <<>>, w |-> <<>>, h |-> <<>>, kids |-> <<>>]

----------------------------------------------------------------------------
(* Font Table Parser: buildPreview, the font document.  A font document is *)
(* [hasFont, fontAdv, upm, ascent, descent, glyphs]: whether a <font>      *)
(* element exists, its horiz-adv-x, the <font-face> attributes (<<>> when  *)
(* the element or the attribute is missing) and the <glyph> elements in    *)
(* document order, each [u, d, adv] (unicode text, "" if none; outline, a  *)
(* sequence of points <<x, y>>, <<>> if none; horiz-adv-x).                *)

DefaultUnitsPerEm == 1024

DefaultAscent == 800

DefaultDescent == 0

DefaultAdvance == 600

MissingGlyphSpacing == 10

unitsPerEmOf(font) == NumberOr(font.upm, DefaultUnitsPerEm)

ascentOf(font) == NumberOr(font.ascent, DefaultAscent)

descentOf(font) == NumberOr(font.descent, DefaultDescent)

\* Number(g.getAttribute('horiz-adv-x') || fontEl.getAttribute('horiz-adv-x') || 0)
GlyphAdv(g, font) ==
    IF g.adv # <<>> THEN Num(g.adv[1])
    ELSE IF font.fontAdv # <<>> THEN Num(font.fontAdv[1])
    ELSE Num(0)

\* glyphs[u] = {d, adv}
PutGlyph(tbl, u, gly) == [k \in DOMAIN tbl \cup {u} |-> IF k = u THEN gly ELSE tbl[k]]

\* the forEach over doc.querySelectorAll('glyph'): entries without unicode or
\* without outline are skipped, a later entry replaces an earlier one of the same key
RECURSIVE GlyphsFrom(_, _, _)
GlyphsFrom(font, i, tbl) ==
    IF i > Len(font.glyphs) THEN tbl
    ELSE LET g == font.glyphs[i]
         IN GlyphsFrom(font, i + 1,
                IF g.u # "" /\ g.d # <<>>
                THEN PutGlyph(tbl, g.u, [d |-> g.d, adv |-> GlyphAdv(g, font)])
                ELSE tbl)

GlyphTable(font) == GlyphsFrom(font, 1, <<>>)

\* the lookup without the lowercase form
LookupGlyphExactOnly(glyphs, ch) == IF ch \in DOMAIN glyphs THEN <<glyphs[ch]>> ELSE <<>>

\* glyphs[ch] || glyphs[ch.toLowerCase()] || null; the result is <<>> or <<glyph>>
LookupGlyph(glyphs, ch) ==
    IF ch \in DOMAIN glyphs THEN <<glyphs[ch]>>
    ELSE IF ToLowerCase(ch) \in DOMAIN glyphs THEN <<glyphs[ToLowerCase(ch)]>>
    ELSE <<>>

----------------------------------------------------------------------------
(* Layout Engine: buildPreview, the glyph loop *)

\* const scale = fontSize / unitsPerEm
ScaleOf(fontSize, unitsPerEm) == Div(fontSize, unitsPerEm)

\* (gly.adv || 600)
AdvanceOf(gly) == OrElse(gly.adv, Num(DefaultAdvance))

\* Math.max(0.12, fontSize / 96)
BaseStrokeMM(fontSize) == MathMax(Frac(12, 100), Div(fontSize, Num(96)))

\* the <path> created for one glyph at the cursor
GlyphPath(gly, cursor, scale, fontSize) ==
    [CreateElement("path") EXCEPT
        !.d = gly.d,
        !.transform = <<Translate(cursor, Num(0)), Scale(scale, scale)>>,
        !.fill = "none",
        !.stroke = "#000",
        !.sw = WidthText(BaseStrokeMM(fontSize), "", TRUE),
        !.pstroke = TRUE,
        !.style = <<"stroke-width:thick", ";", "vector-effect:non-scaling-stroke", ";">>]

\* the cursor advance with the letter gap left out
CursorAfterGlyphNoKerning(cursor, gly, scale, kerning) ==
    Add(cursor, Mul(AdvanceOf(gly), scale))

\* cursor += (gly.adv || 600) * scale + kerning
CursorAfterGlyph(cursor, gly, scale, kerning) ==
    Add(cursor, Add(Mul(AdvanceOf(gly), scale), kerning))

\* cursor += 10 + kerning
CursorAfterMissing(cursor, kerning) == Add(cursor, Add(Num(MissingGlyphSpacing), kerning))

\* one iteration of  for (const ch of message)  on the loop state [cursor, paths]
LayoutStep(st, ch, glyphs, scale, kerning, fontSize) ==
    LET found == LookupGlyph(glyphs, ch)
    IN IF found = <<>>
       THEN [st EXCEPT !.cursor = CursorAfterMissing(st.cursor, kerning)]
       ELSE [cursor |-> CursorAfterGlyph(st.cursor, found[1], scale, kerning),
             paths |-> Append(st.paths, GlyphPath(found[1], st.cursor, scale, fontSize))]

RECURSIVE LayoutFrom(_, _, _, _, _, _, _)
LayoutFrom(st, message, i, glyphs, scale, kerning, fontSize) ==
    IF i > Len(message) THEN st
    ELSE LayoutFrom(LayoutStep(st, message[i], glyphs, scale, kerning, fontSize),
                    message, i + 1, glyphs, scale, kerning, fontSize)

LayoutStart == [cursor |-> Num(0), paths |-> <<>>]

\* const flip = `translate(0 ${ascent * scale}) scale(1 -1)`
FlipTransform(ascent, scale) == <<Translate(Num(0), Mul(ascent, scale)), Scale(Num(1), Num(-1))>>

\* the glyph group as appended to the canvas: marked, its paths inside, flipped
GlyphGroup(paths, ascent, scale) ==
    [CreateElement("g") EXCEPT !.glyphs = TRUE, !.kids = paths,
                               !.transform = FlipTransform(ascent, scale)]

----------------------------------------------------------------------------
(* Measuring and centering: buildPreview after the glyph loop.  getBBox is *)
(* the renderer's: the tight box of the element's geometry in the          *)
(* element's own user space, that is with the transforms of its children   *)
(* applied and its own transform attribute not applied; an outline is the  *)
(* polyline through its points.                                            *)

ApplyOp(f, p) ==
    IF f.op = "translate" THEN <<Add(p[1], f.a), Add(p[2], f.b)>>
    ELSE <<Mul(p[1], f.a), Mul(p[2], f.b)>>

\* the transform list "f1 f2 ... fn" maps p to f1(f2(...fn(p)))
RECURSIVE ApplyTransform(_, _)
ApplyTransform(tr, p) ==
    IF tr = <<>> THEN p ELSE ApplyOp(Head(tr), ApplyTransform(Tail(tr), p))

\* a transform attribute whose text holds Infinity or NaN does not parse and is ignored
EffectiveTransform(tr) ==
    IF \A i \in 1..Len(tr) : IsFinite(tr[i].a) /\ IsFinite(tr[i].b) THEN tr ELSE <<>>

PointsOf(path) ==
    {ApplyTransform(EffectiveTransform(path.transform), <<Num(path.d[i][1]), Num(path.d[i][2])>>) :
        i \in 1..Len(path.d)}

GroupPoints(group) == UNION {PointsOf(group.kids[i]) : i \in 1..Len(group.kids)}

MinOf(S) == CHOOSE m \in S : \A o \in S : ~Less(o, m)

MaxOf(S) == CHOOSE m \in S : \A o \in S : ~Less(m, o)

ZeroBBox == [x |-> Num(0), y |-> Num(0), width |-> Num(0), height |-> Num(0)]

BBoxOfPoints(P) ==
    IF P = {} THEN ZeroBBox
    ELSE LET xs == {p[1] : p \in P}
             ys == {p[2] : p \in P}
         IN [x |-> MinOf(xs), y |-> MinOf(ys),
             width |-> Sub(MaxOf(xs), MinOf(xs)), height |-> Sub(MaxOf(ys), MinOf(ys))]

\* gGroup.getBBox() on a rendered group
GetBBox(group) == BBoxOfPoints(GroupPoints(group))

desiredCenterX == 270

desiredCenterY == 60

Half(a) == Div(a, Num(2))

\* finalTransform = `translate(${dx} ${dy})` from the measured box
FinalTransform(bbox) ==
    LET glyphCenterX == Add(bbox.x, Half(bbox.width))
        glyphCenterY == Add(bbox.y, Half(bbox.height))
        dx == Sub(Num(desiredCenterX), glyphCenterX)
        dy == Sub(Num(desiredCenterY), glyphCenterY)
    IN Translate(dx, dy)

\* gGroup.setAttribute('transform', finalTransform + ' ' + gGroup.getAttribute('transform'))
Centered(group, bbox) == [group EXCEPT !.transform = <<FinalTransform(bbox)>> \o group.transform]

\* the test on the width alone
EmptyBBoxWidthOnly(bbox) == bbox.width = Num(0)

\* !bbox || bbox.width === 0 || bbox.height === 0
EmptyBBox(bbox) == bbox.width = Num(0) \/ bbox.height = Num(0)

----------------------------------------------------------------------------
(* Drawing Sanitizer: buildPreview, the drawing branch.  The fetched text  *)
(* is [wellFormed, doc]; a document is its root element, whose kids are    *)
(* the top-level child elements.                                           *)

CanvasWidth == 360

CanvasHeight == 120

\* what DOMParser gives for text that is not well-formed XML: no exception, a
\* document whose root is <parsererror> holding the <sourcetext> of the error
ParserErrorDocument ==
    [CreateElement("parsererror") EXCEPT !.kids = <<CreateElement("sourcetext")>>]

\* parser.parseFromString(raw, 'image/svg+xml').documentElement
ParseFromString(raw) == IF raw.wellFormed THEN raw.doc ELSE ParserErrorDocument

\* vbW, vbH: the viewBox's third and fourth number, else the width and height
\* attributes with their unit stripped, else 360 and 120
SourceViewport(inner) ==
    IF inner.viewBox # <<>>
    THEN IF Len(inner.viewBox) = 4
         THEN [w |-> Num(inner.viewBox[3]), h |-> Num(inner.viewBox[4])]
         ELSE [w |-> Num(CanvasWidth), h |-> Num(CanvasHeight)]
    ELSE [w |-> OrElse(NumberOr(inner.w, CanvasWidth), Num(CanvasWidth)),
          h |-> OrElse(NumberOr(inner.h, CanvasHeight), Num(CanvasHeight))]

\* tag.indexOf('namedview') !== -1
IsNamedView(tag) == tag = "sodipodi:namedview"

\* the size test alone, without the test on the position
DropsRectBySizeOnly(n, vp) ==
    /\ ~Less(NumberOr(n.w, 0), Sub(vp.w, Frac(1, 10)))
    /\ ~Less(NumberOr(n.h, 0), Sub(vp.h, Frac(1, 10)))

\* the two tests on a top-level <rect>
DropsRect(n, vp) ==
    LET rx == NumberOr(n.x, 0)
        ry == NumberOr(n.y, 0)
        rw == NumberOr(n.w, 0)
        rh == NumberOr(n.h, 0)
        tenth == Frac(1, 10)
        absx == IF Less(rx, Num(0)) THEN Neg(rx) ELSE rx
        absy == IF Less(ry, Num(0)) THEN Neg(ry) ELSE ry
    IN \/ ~Less(rw, Sub(vp.w, tenth)) /\ ~Less(rh, Sub(vp.h, tenth))
       \/ Less(Mul(vp.w, Num(2)), absx)
       \/ Less(Mul(vp.h, Num(2)), absy)

\* whether the forEach imports top-level child n
ImportsNode(n, vp) ==
    /\ n.tag \notin {"metadata", "defs"}
    /\ ~IsNamedView(n.tag)
    /\ n.tag = "rect" => ~DropsRect(n, vp)

RECURSIVE SelectImported(_, _)
SelectImported(kids, vp) ==
    IF kids = <<>> THEN <<>>
    ELSE (IF ImportsNode(Head(kids), vp) THEN <<Head(kids)>> ELSE <<>>)
         \o SelectImported(Tail(kids), vp)

\* the <g> appended to the canvas for a fetched drawing
DrawingGroup(raw) ==
    LET inner == ParseFromString(raw)
    IN [CreateElement("g") EXCEPT !.kids = SelectImported(inner.kids, SourceViewport(inner))]

\* the base canvas with its preview-only background
PreviewBackground ==
    [CreateElement("rect") EXCEPT !.x = <<0>>, !.y = <<0>>, !.w = <<CanvasWidth>>,
                                  !.h = <<CanvasHeight>>, !.fill = "white", !.preview = TRUE]

BaseCanvas ==
    [CreateElement("svg") EXCEPT !.w = <<CanvasWidth>>, !.h = <<CanvasHeight>>,
                                 !.viewBox = <<0, 0, CanvasWidth, CanvasHeight>>,
                                 !.kids = <<PreviewBackground>>]

AppendChild(parent, child) == [parent EXCEPT !.kids = Append(parent.kids, child)]

----------------------------------------------------------------------------
(* The assets.  What fetchText resolves to for each path, when the fetch   *)
(* succeeds: the repository's Drawings/ and Fonts/ files are not part of   *)
(* the program, these stand for their kinds.                               *)

Pt(x, y) == <<x, y>>

Glyph(u, d, adv) == [u |-> u, d |-> d, adv |-> adv]

OutlineA == <<Pt(0, 0), Pt(300, 700), Pt(600, 0)>>

OutlineB == <<Pt(0, 0), Pt(0, 700), Pt(400, 350)>>

OutlineDash == <<Pt(100, 300), Pt(500, 300)>>

\* a stroke font with lowercase letters and a dash that is a horizontal line
Hershey ==
    [hasFont |-> TRUE, fontAdv |-> <<500>>, upm |-> <<1000>>, ascent |-> <<800>>,
     descent |-> <<>>,
     glyphs |-> <<Glyph("a", OutlineA, <<600>>), Glyph("b", OutlineB, <<>>),
                  Glyph("-", OutlineDash, <<>>)>>]

\* an SVG document without a <font> element
NotAFont ==
    [hasFont |-> FALSE, fontAdv |-> <<>>, upm |-> <<>>, ascent |-> <<>>, descent |-> <<>>,
     glyphs |-> <<>>]

FontFile(path) == IF path = "hershey.svg" THEN Hershey ELSE NotAFont

Shape(tag) == [CreateElement(tag) EXCEPT !.stroke = "#000", !.fill = "none"]

Rect(x, y, w, h) ==
    [CreateElement("rect") EXCEPT !.x = <<x>>, !.y = <<y>>, !.w = <<w>>, !.h = <<h>>,
                                  !.fill = "white"]

\* a drawing as an editor saves it: view state, a page rectangle, a shape
StarDocument ==
    [CreateElement("svg") EXCEPT
        !.viewBox = <<0, 0, CanvasWidth, CanvasHeight>>,
        !.kids = <<CreateElement("sodipodi:namedview"), Rect(0, 0, CanvasWidth, CanvasHeight),
                   [Shape("path") EXCEPT !.d = <<Pt(60, 30), Pt(120, 90)>>]>>]

DrawingFile(path) ==
    IF path = "star.svg" THEN [wellFormed |-> TRUE, doc |-> StarDocument]
    ELSE [wellFormed |-> FALSE, doc |-> CreateElement("svg")]

----------------------------------------------------------------------------
(* Export Normalizer: downloadSVG.  The passes run over the clone in the   *)
(* order of the code; each is written as a walk of the tree, which visits  *)
(* what querySelectorAll on the clone selects (its descendants).           *)

shapeSelectors == {"path", "circle", "ellipse", "rect", "line", "polyline", "polygon"}

IsShape(el) == el.tag \in shapeSelectors

\* MIN_STROKE_MM = 0.05
MinStrokeMM == Frac(5, 100)

\* String(MIN_STROKE_MM) + 'mm'
MinStrokeText == WidthText(MinStrokeMM, "mm", TRUE)

\* '0.25mm'
DefaultStrokeText == WidthText(Frac(25, 100), "mm", TRUE)

\* a declaration token stands at a place where (?:^|;) matches before it
AtBoundary(style, i) == i = 1 \/ style[i - 1] = ";"

\* /(?:^|;)\s*P\s*:\s*none(?:;|$)/i.test(style), tok the declaration "P:none"
StyleHasNone(style, tok) ==
    \E i \in 1..Len(style) :
        /\ style[i] = tok
        /\ AtBoundary(style, i)
        /\ (i = Len(style) \/ style[i + 1] = ";")

\* /(?:^|;)\s*P\s*:/i.test(style), toks the declarations of property P
StyleSpecifies(style, toks) ==
    \E i \in 1..Len(style) : style[i] \in toks /\ AtBoundary(style, i)

\* style.replace(/(?:^|;)\s*P\s*:\s*none;?/ig, ''): a match takes the separator
\* before the declaration and the one after it, and the scan goes on after the match
RECURSIVE StripNone(_, _, _)
StripNone(style, tok, atStart) ==
    IF style = <<>> THEN <<>>
    ELSE IF atStart /\ style[1] = tok
    THEN LET rest == Tail(style)
         IN StripNone(IF rest # <<>> /\ rest[1] = ";" THEN Tail(rest) ELSE rest, tok, FALSE)
    ELSE IF style[1] = ";" /\ Len(style) >= 2 /\ style[2] = tok
    THEN LET rest == Tail(Tail(style))
         IN StripNone(IF rest # <<>> /\ rest[1] = ";" THEN Tail(rest) ELSE rest, tok, FALSE)
    ELSE <<style[1]>> \o StripNone(Tail(style), tok, FALSE)

\* clone.querySelectorAll('[data-eggbot-preview]').forEach(n => n.remove())
RECURSIVE RemovePreviewOnly(_)
RemovePreviewOnly(el) ==
    LET keep == SelectSeq(el.kids, LAMBDA k : ~k.preview)
    IN [el EXCEPT !.kids = [i \in 1..Len(keep) |-> RemovePreviewOnly(keep[i])]]

\* the preview styling left on the glyph paths
KeepPreviewStroke(el) == el

\* el.removeAttribute('style'); el.removeAttribute('data-eggbot-preview-stroke')
StripPreviewStroke(el) == IF el.pstroke THEN [el EXCEPT !.style = <<>>, !.pstroke = FALSE] ELSE el

\* if (!el.getAttribute('stroke-width')) el.setAttribute('stroke-width', '0.25mm')
WithDefaultWidth(el) == IF el.sw.k = "absent" THEN [el EXCEPT !.sw = DefaultStrokeText] ELSE el

\* first pass: fill none and stroke none together become a visible stroke
RepairDoubleNone(el) ==
    LET styleHasFillNone == StyleHasNone(el.style, "fill:none") \/ el.fill = "none"
        styleHasStrokeNone == StyleHasNone(el.style, "stroke:none") \/ el.stroke = "none"
        newStyle == StripNone(StripNone(el.style, "fill:none", TRUE), "stroke:none", TRUE)
    IN IF styleHasFillNone /\ styleHasStrokeNone
       THEN WithDefaultWidth([el EXCEPT !.style = newStyle, !.stroke = "#000000",
                                        !.fill = "none"])
       ELSE el

\* second pass: no fill and no stroke specified anywhere
RepairUnsetPaint(el) ==
    LET hasFillAttr == el.fill # Absent /\ el.fill # "none"
        hasStrokeAttr == el.stroke # Absent /\ el.stroke # "none"
        styleSpecifiesFill == StyleSpecifies(el.style, {"fill:none", "fill:red"})
        styleSpecifiesStroke == StyleSpecifies(el.style, {"stroke:none", "stroke:red"})
    IN IF ~hasFillAttr /\ ~hasStrokeAttr /\ ~styleSpecifiesFill /\ ~styleSpecifiesStroke
       THEN WithDefaultWidth([el EXCEPT !.stroke = "#000000", !.fill = "none", !.so = "1"])
       ELSE el

Floored(el) == [el EXCEPT !.sw = MinStrokeText, !.ve = "non-scaling-stroke"]

\* third pass: a stroke-width attribute below the minimum, or not of the form
\* number[mm], becomes the minimum
EnforceMinStroke(el) ==
    IF el.sw.k = "absent" THEN el
    ELSE IF el.sw.k = "num" THEN (IF Less(el.sw.v, MinStrokeMM) THEN Floored(el) ELSE el)
    ELSE Floored(el)

\* the new stroke-width of a glyph path
GlyphStrokeWidth(sw) ==
    IF sw.k = "num"
    THEN IF Less(sw.v, MinStrokeMM) THEN MinStrokeText
         ELSE IF sw.u = "mm" THEN sw
         ELSE IF IsNaN(sw.v) THEN OtherWidth
         ELSE WidthText(sw.v, "mm", TRUE)
    ELSE MinStrokeText

\* fourth pass, on the paths inside [data-eggbot-glyphs]
NormalizeGlyphPath(p) ==
    [p EXCEPT !.stroke = IF p.stroke \in {Absent, ""} THEN "#000000" ELSE p.stroke,
              !.sw = GlyphStrokeWidth(p.sw),
              !.ve = "non-scaling-stroke"]

\* the passes that rewrite one element in place, in the order of the code; inGlyphs:
\* the element has an ancestor marked data-eggbot-glyphs
RewriteElement(el, inGlyphs) ==
    LET a == StripPreviewStroke(el)
        b == IF IsShape(a) THEN EnforceMinStroke(RepairUnsetPaint(RepairDoubleNone(a))) ELSE a
    IN IF inGlyphs /\ b.tag = "path" THEN NormalizeGlyphPath(b) ELSE b

RECURSIVE RewriteTree(_, _)
RewriteTree(el, inGlyphs) ==
    [el EXCEPT !.kids = [i \in 1..Len(el.kids) |->
        RewriteTree(RewriteElement(el.kids[i], inGlyphs \/ el.glyphs), inGlyphs \/ el.glyphs)]]

\* rw >= vbW*0.95 && rh >= vbH*0.95
IsFullCanvasRect(r, vbW, vbH) ==
    /\ r.tag = "rect"
    /\ ~Less(NumberOr(r.w, 0), Mul(vbW, Frac(95, 100)))
    /\ ~Less(NumberOr(r.h, 0), Mul(vbH, Frac(95, 100)))

RECURSIVE RemoveFullCanvasRects(_, _, _)
RemoveFullCanvasRects(el, vbW, vbH) ==
    LET keep == SelectSeq(el.kids, LAMBDA k : ~IsFullCanvasRect(k, vbW, vbH))
    IN [el EXCEPT !.kids = [i \in 1..Len(keep) |-> RemoveFullCanvasRects(keep[i], vbW, vbH)]]

\* downloadSVG from the clone to the serialized document
Normalize(svg) ==
    LET viewBox == IF svg.viewBox = <<>> THEN <<0, 0, CanvasWidth, CanvasHeight>> ELSE svg.viewBox
        vbW == OrElse(Num(viewBox[3]), Num(CanvasWidth))
        vbH == OrElse(Num(viewBox[4]), Num(CanvasHeight))
    IN RemoveFullCanvasRects(RewriteTree(RemovePreviewOnly(svg), FALSE), vbW, vbH)

----------------------------------------------------------------------------
(* buildPreview as a process: a run is suspended at the drawing fetch, at  *)
(* the font fetch or at the 30 ms wait before getBBox.  The fields drawing *)
(* and font record what became of each asset, committed that the run has   *)
(* put its canvas into #previewContainer, gap the time since the last edit *)
(* when the run began.                                                     *)

DebounceWait == 250

BBoxWait == 30

DefaultFontSize == 24

MaxRuns == 2

MaxEdits == 2

ShortGap == 125

\* a child of #previewContainer: the canvas run r committed, with what became of
\* the run's two assets, or the warning run r appended
SvgNode(r, run) ==
    [kind |-> "svg", run |-> r, el |-> run.svg, drawing |-> run.drawing, font |-> run.font]

NoteNode(r) ==
    [kind |-> "note", run |-> r, el |-> CreateElement("div"), drawing |-> "none", font |-> "none"]

\* previewContainer.innerHTML = ''; previewContainer.appendChild(svg)
CommitCanvas(r, run) == <<SvgNode(r, run)>>

\* buildPreview has returned: its locals are gone, what it showed is in the container
Returned(run) ==
    [run EXCEPT !.pc = "done", !.drawingPath = "", !.fontPath = "", !.message = <<>>,
                !.fontSize = Num(DefaultFontSize), !.kerning = Num(0), !.svg = BaseCanvas,
                !.drawing = "none", !.font = "none", !.wait = 0]

\* "fallback: just show svg" at the end of buildPreview
Fallback(run, r) ==
    [run |-> Returned([run EXCEPT !.committed = TRUE]), sink |-> CommitCanvas(r, run)]

\* if (fontPath && message.trim().length > 0): suspend at the font fetch, else fall back
ToFont(run, r, snk) ==
    IF run.fontPath # "" /\ TrimNonEmpty(run.message)
    THEN [run |-> [run EXCEPT !.pc = "fetchFont"], sink |-> snk]
    ELSE Fallback(run, r)

\* buildPreview up to its first await: read the controls, create the canvas
Begin(c, origin, gap, r, snk) ==
    LET run == [pc |-> "fetchDrawing", origin |-> origin,
                gap |-> IF origin = "debounce" THEN gap ELSE 0,
                drawingPath |-> c.drawing, fontPath |-> c.font, message |-> c.message,
                fontSize |-> OrElse(Num(c.fontSize), Num(DefaultFontSize)),
                kerning |-> OrElse(Num(c.kerning), Num(0)),
                svg |-> BaseCanvas, committed |-> FALSE,
                drawing |-> "none", font |-> "none", wait |-> 0]
    IN IF c.drawing # "" THEN [run |-> run, sink |-> snk] ELSE ToFont(run, r, snk)

\* the drawing fetch settles: the group is appended, or the error is caught
AfterDrawingFetch(run, r, ok, snk) ==
    LET raw == DrawingFile(run.drawingPath)
        got == IF ~ok THEN [run EXCEPT !.drawing = "failed"]
               ELSE [run EXCEPT !.svg = AppendChild(run.svg, DrawingGroup(raw)),
                                !.drawing = IF raw.wellFormed THEN "loaded" ELSE "malformed"]
    IN ToFont(got, r, snk)

\* the font branch without its catch: the error ends the run with nothing shown
UncaughtFontError(run, r, why, snk) ==
    [run |-> Returned(run), sink |-> snk]

\* catch (e) { console.error('font render failed', e) } and the fallback after it
CaughtFontError(run, r, why, snk) == Fallback([run EXCEPT !.font = why], r)

\* the font fetch settles: the glyph group is laid out, appended and the canvas
\* committed before the wait; a failed fetch or a missing <font> is caught
AfterFontFetch(run, r, ok, snk) ==
    LET font == FontFile(run.fontPath)
        scale == ScaleOf(run.fontSize, unitsPerEmOf(font))
        st == LayoutFrom(LayoutStart, run.message, 1, GlyphTable(font), scale,
                         run.kerning, run.fontSize)
        group == GlyphGroup(st.paths, ascentOf(font), scale)
        laid == [run EXCEPT !.svg = AppendChild(run.svg, group), !.pc = "bboxWait",
                            !.committed = TRUE, !.font = "laid", !.wait = BBoxWait]
    IN IF ~ok THEN CaughtFontError(run, r, "failed", snk)
       ELSE IF ~font.hasFont THEN CaughtFontError(run, r, "nofont", snk)
       ELSE [run |-> laid, sink |-> CommitCanvas(r, laid)]

GlyphGroupOf(svg) == svg.kids[Len(svg.kids)]

Attached(r, snk) == \E i \in 1..Len(snk) : snk[i].kind = "svg" /\ snk[i].run = r

\* after the wait: measure, center, warn on an empty box.  A group that is no longer
\* rendered measures as the zero box or getBBox throws (caught: the fallback runs).
\* The canvas is one object: centering it shows in the container while it is there.
AfterBBoxWait(run, r, outcome, snk) ==
    LET group == GlyphGroupOf(run.svg)
        bbox == IF outcome = "rendered" THEN GetBBox(group) ELSE ZeroBBox
        n == Len(run.svg.kids)
        centered == [run EXCEPT !.svg.kids[n] = Centered(group, bbox), !.font = "centered"]
        shown == [i \in 1..Len(snk) |->
                    IF snk[i].kind = "svg" /\ snk[i].run = r THEN SvgNode(r, centered)
                    ELSE snk[i]]
    IN IF outcome = "throws" THEN CaughtFontError(run, r, "threw", snk)
       ELSE [run |-> Returned(centered),
             sink |-> IF EmptyBBox(bbox) THEN Append(shown, NoteNode(r)) ELSE shown]

----------------------------------------------------------------------------
(* The page: edit events through debounce(fn, 250), the Preview button,    *)
(* time, and the continuations of the suspended runs.                      *)

DrawingPaths == {"", "star.svg", "broken.svg"}

FontPaths == {"", "hershey.svg", "plain.svg"}

Messages == {<<>>, <<"a">>}

FontSizes == {24, 12}

Kernings == {0, 2}

RemoveAt(seq, i) == SubSeq(seq, 1, i - 1) \o SubSeq(seq, i + 1, Len(seq))

\* debounce without its clearTimeout: every event leaves its own timeout pending
DebouncedWithoutClear(pend, tt) ==
    [pending |-> Append(pend, DebounceWait), t |-> Len(pend) + 1]

\* the function debounce returns: if (t) clearTimeout(t); t = setTimeout(..., wait)
Debounced(pend, tt) ==
    LET cleared == IF tt # 0 THEN RemoveAt(pend, tt) ELSE pend
    IN [pending |-> Append(cleared, DebounceWait), t |-> Len(cleared) + 1]

NoLayout == [on |-> FALSE]

NoExport == [on |-> FALSE]

NoSanitize == [on |-> FALSE]

\* populateDrawings selects the first drawing of the list, populateFonts none
Init ==
    /\ ctl = [drawing |-> "star.svg", font |-> "", message |-> <<>>,
              fontSize |-> DefaultFontSize, kerning |-> 0]
    /\ pending = <<>>
    /\ t = 0
    /\ runs = <<>>
    /\ sink = <<>>
    /\ sinceEdit = DebounceWait
    /\ burstRuns = 0
    /\ burstEdits = 0
    /\ edits = 0
    /\ lay = NoLayout
    /\ exp = NoExport
    /\ san = NoSanitize

\* a change or input event on one of the five controls: its listener is debounced
EditEvent(c) ==
    LET deb == Debounced(pending, t)
    IN /\ edits < MaxEdits
       /\ Len(runs) + Len(deb.pending) <= MaxRuns
       /\ ctl' = c
       /\ pending' = deb.pending
       /\ t' = deb.t
       /\ burstRuns' = IF sinceEdit >= DebounceWait THEN 0 ELSE burstRuns
       /\ burstEdits' = IF sinceEdit >= DebounceWait THEN 1 ELSE burstEdits + 1
       /\ sinceEdit' = 0
       /\ edits' = edits + 1
       /\ UNCHANGED <<runs, sink, lay, san>>
       /\ exp' = NoExport

EditDrawing == \E v \in DrawingPaths \ {ctl.drawing} : EditEvent([ctl EXCEPT !.drawing = v])

EditMessage == \E v \in Messages \ {ctl.message} : EditEvent([ctl EXCEPT !.message = v])

EditFontSize == \E v \in FontSizes \ {ctl.fontSize} : EditEvent([ctl EXCEPT !.fontSize = v])

EditKerning == \E v \in Kernings \ {ctl.kerning} : EditEvent([ctl EXCEPT !.kerning = v])

EditFont == \E v \in FontPaths \ {ctl.font} : EditEvent([ctl EXCEPT !.font = v])

\* a buildPreview call runs to its first await (or to its end)
StartRun(origin) ==
    LET b == Begin(ctl, origin, sinceEdit, Len(runs) + 1, sink)
    IN /\ runs' = Append(runs, b.run)
       /\ sink' = b.sink

\* the timeout's callback: t = null; fn()
TimerFires ==
    \E i \in 1..Len(pending) :
        /\ pending[i] = 0
        /\ Len(runs) < MaxRuns
        /\ pending' = RemoveAt(pending, i)
        /\ t' = 0
        /\ StartRun("debounce")
        /\ burstRuns' = burstRuns + 1
        /\ UNCHANGED <<ctl, sinceEdit, burstEdits, edits, lay, san>>
        /\ exp' = NoExport

\* a click on #previewBtn calls buildPreview directly
ClickPreview ==
    /\ Len(runs) + Len(pending) < MaxRuns
    /\ StartRun("click")
    /\ UNCHANGED <<ctl, pending, t, sinceEdit, burstRuns, burstEdits, edits, lay, san>>
    /\ exp' = NoExport

Left(d, by) == IF d > by THEN d - by ELSE 0

\* time passes; a timeout runs no earlier than its delay, and may run later
Advance ==
    /\ \/ \E i \in 1..Len(pending) : pending[i] > 0
       \/ \E r \in 1..Len(runs) : runs[r].pc = "bboxWait" /\ runs[r].wait > 0
    /\ pending' = [i \in 1..Len(pending) |-> Left(pending[i], ShortGap)]
    /\ runs' = [r \in 1..Len(runs) |->
                    IF runs[r].pc = "bboxWait" THEN [runs[r] EXCEPT !.wait = Left(@, ShortGap)]
                    ELSE runs[r]]
    /\ sinceEdit' = IF sinceEdit + ShortGap > DebounceWait THEN DebounceWait
                    ELSE sinceEdit + ShortGap
    /\ UNCHANGED <<ctl, t, sink, burstRuns, burstEdits, edits, lay, san>>
    /\ exp' = NoExport

Resume(r, step) ==
    /\ runs' = [runs EXCEPT ![r] = step.run]
    /\ sink' = step.sink
    /\ UNCHANGED <<ctl, pending, t, sinceEdit, burstRuns, burstEdits, edits, lay, san>>
    /\ exp' = NoExport

DrawingFetched ==
    \E r \in 1..Len(runs), ok \in BOOLEAN :
        /\ runs[r].pc = "fetchDrawing"
        /\ Resume(r, AfterDrawingFetch(runs[r], r, ok, sink))

FontFetched ==
    \E r \in 1..Len(runs), ok \in BOOLEAN :
        /\ runs[r].pc = "fetchFont"
        /\ Resume(r, AfterFontFetch(runs[r], r, ok, sink))

BBoxTimer ==
    \E r \in 1..Len(runs) :
        /\ runs[r].pc = "bboxWait"
        /\ runs[r].wait = 0
        /\ \E outcome \in (IF Attached(r, sink) THEN {"rendered"} ELSE {"zero", "throws"}) :
              Resume(r, AfterBBoxWait(runs[r], r, outcome, sink))

\* a click on #downloadBtn: downloadSVG serializes the normalized clone of the first
\* <svg> of the container and hands it to the browser; without one it only alerts
ClickDownload ==
    /\ \E i \in 1..Len(sink) :
          /\ sink[i].kind = "svg"
          /\ \A j \in 1..(i - 1) : sink[j].kind # "svg"
          /\ exp' = [on |-> TRUE, phase |-> "download", scene |-> sink[i].el,
                     once |-> Normalize(sink[i].el)]
    /\ UNCHANGED <<ctl, pending, t, runs, sink, sinceEdit, burstRuns, burstEdits, edits, lay, san>>

Next ==
    \/ EditDrawing
    \/ EditMessage
    \/ EditFontSize
    \/ EditKerning
    \/ EditFont
    \/ TimerFires
    \/ ClickPreview
    \/ Advance
    \/ DrawingFetched
    \/ FontFetched
    \/ BBoxTimer
    \/ ClickDownload

Spec == Init /\ [][Next]_vars

----------------------------------------------------------------------------
(* Properties of the preview pipeline *)

InFlight(r) == runs[r].pc # "done"

HasDrawingGroup(svg) == \E i \in 1..Len(svg.kids) : svg.kids[i].tag = "g" /\ ~svg.kids[i].glyphs

HasGlyphGroup(svg) == \E i \in 1..Len(svg.kids) : svg.kids[i].glyphs

Canvases == {i \in 1..Len(sink) : sink[i].kind = "svg"}

\* C1: last-request-wins.  Once the run requested last has committed, the sink holds
\* only that run's canvas and that run's advisories, whatever an older run still in
\* flight does afterwards.
LastRequestWins ==
    LET B == Len(runs)
    IN (B > 0 /\ runs[B].committed) => \A i \in 1..Len(sink) : sink[i].run = B

DebounceRuns == {r \in 1..Len(runs) : runs[r].origin = "debounce"}

\* C4 as amended: within a burst of edit events, each less than 250 ms after the
\* previous one, every event cancels the timeout the previous one left, so the burst
\* starts at most one buildPreview run, and exactly one once its last timeout's
\* callback has run; that run starts only when 250 ms have passed since the last
\* event of the burst.
BurstStartsOneRun ==
    /\ burstRuns <= 1
    /\ (edits > 0 /\ pending = <<>>) => burstRuns = 1
    /\ \A r \in DebounceRuns : runs[r].gap >= DebounceWait

\* C4 as stated: ... and no second pipeline run is in flight while it runs.
BurstRunIsAlone ==
    /\ BurstStartsOneRun
    /\ \A r \in DebounceRuns : InFlight(r) => \A q \in 1..Len(runs) : q # r => ~InFlight(q)

\* C4 witness: a burst of two edit events, and the single run it started
TwoEditsOneRun ==
    /\ burstEdits = 2
    /\ pending = <<>>
    /\ burstRuns = 1
    /\ Cardinality(DebounceRuns) = 1

\* C5: a drawing whose bytes are not well-formed ends in a committed canvas that
\* holds no drawing subtree.
MalformedDrawingIsNoDrawing ==
    \A i \in Canvases : sink[i].drawing = "malformed" => ~HasDrawingGroup(sink[i].el)

PreviewStyle == {"stroke-width:thick", "vector-effect:non-scaling-stroke"}

\* some element below el carries the preview marker or the preview-stroke marker, or
\* is a glyph path that still has the preview's inline stroke style
RECURSIVE PreviewArtifacts(_, _)
PreviewArtifacts(el, inGlyphs) ==
    \E i \in 1..Len(el.kids) :
        LET k == el.kids[i]
        IN \/ k.preview
           \/ k.pstroke
           \/ /\ inGlyphs \/ el.glyphs
              /\ k.tag = "path"
              /\ \E j \in 1..Len(k.style) : k.style[j] \in PreviewStyle
           \/ PreviewArtifacts(k, inGlyphs \/ el.glyphs)

\* C11: a document exported after any sequence of renders holds no element with the
\* preview marker, and no glyph path with the preview-stroke marker or the preview's
\* inline stroke style.
NoPreviewArtifactsExported ==
    (exp.on /\ exp.phase = "download") => ~PreviewArtifacts(exp.once, FALSE)

\* C11 witness: after two renders, the canvas shown has the background and preview
\* styled glyph paths, and its export still has the glyph group
ExportedAfterTwoRenders ==
    /\ exp.on /\ exp.phase = "download"
    /\ Len(runs) = 2
    /\ HasGlyphGroup(exp.scene)
    /\ \E i \in 1..Len(exp.scene.kids) : exp.scene.kids[i].preview
    /\ \E i \in 1..Len(exp.scene.kids) :
          exp.scene.kids[i].glyphs /\ PreviewArtifacts(exp.scene.kids[i], FALSE)
    /\ HasGlyphGroup(exp.once)


----------------------------------------------------------------------------
(* One render's text branch, step by step: the guard, the glyph loop one   *)
(* character at a time, the flip, the measurement, the centering.  The     *)
(* inputs are drawn from LayoutFonts, the messages of at most MaxLen       *)
(* characters over Alphabet, LayoutFontSizes and LayoutKernings.  origins  *)
(* records, per character walked, <<>> or <<x>>, x the translate of the    *)
(* path the iteration appended.                                            *)

MaxLen == 3

Alphabet == {"a", "A", "-", "?", " "}

LayoutFontSizes == {24, 12}

LayoutKernings == {-1, 0, 2}

\* lowercase letters only; an entry without unicode and one without outline
LowercaseGlyphs ==
    <<Glyph("a", OutlineA, <<600>>), Glyph("b", OutlineB, <<>>), Glyph("-", OutlineDash, <<>>),
      Glyph("", OutlineB, <<400>>), Glyph("?", <<>>, <<400>>)>>

\* both cases of a letter, a zero and a negative advance, a repeated key
BothCaseGlyphs ==
    <<Glyph("a", OutlineB, <<300>>), Glyph("A", OutlineB, <<700>>), Glyph("a", OutlineA, <<0>>),
      Glyph("-", OutlineDash, <<-200>>)>>

LayoutFonts ==
    {[hasFont |-> TRUE, fontAdv |-> m[3], upm |-> m[1], ascent |-> m[2], descent |-> <<>>,
      glyphs |-> g] :
        m \in {<<<<1000>>, <<800>>, <<500>>>>, <<<<>>, <<>>, <<>>>>,
               <<<<0>>, <<800>>, <<>>>>, <<<<-1000>>, <<800>>, <<500>>>>},
        g \in {LowercaseGlyphs, BothCaseGlyphs}}

RECURSIVE SeqsUpTo(_, _)
SeqsUpTo(S, n) ==
    IF n = 0 THEN {<<>>}
    ELSE LET shorter == SeqsUpTo(S, n - 1)
         IN shorter \cup {Append(q, c) : q \in shorter, c \in S}

LayoutInit ==
    /\ lay \in [on : {TRUE}, phase : {"guard"}, font : LayoutFonts,
                message : SeqsUpTo(Alphabet, MaxLen),
                fontSize : {Num(v) : v \in LayoutFontSizes},
                kerning : {Num(v) : v \in LayoutKernings},
                i : {1}, st : {LayoutStart}, origins : {<<>>}, group : {CreateElement("g")},
                bbox : {ZeroBBox}, note : {FALSE}, committed : {FALSE}]
    /\ ctl = [drawing |-> "", font |-> "", message |-> <<>>, fontSize |-> DefaultFontSize,
              kerning |-> 0]
    /\ pending = <<>>
    /\ t = 0
    /\ runs = <<>>
    /\ sink = <<>>
    /\ sinceEdit = DebounceWait
    /\ burstRuns = 0
    /\ burstEdits = 0
    /\ edits = 0
    /\ exp = NoExport
    /\ san = NoSanitize

LayScale == ScaleOf(lay.fontSize, unitsPerEmOf(lay.font))

\* if (fontPath && message.trim().length > 0), with a font selected; when the branch
\* is skipped the fallback commits the canvas
LayGuard ==
    /\ lay.on /\ lay.phase = "guard"
    /\ lay' = IF TrimNonEmpty(lay.message) THEN [lay EXCEPT !.phase = "walk"]
              ELSE [lay EXCEPT !.phase = "skipped", !.committed = TRUE]
    /\ UNCHANGED <<ctl, pending, t, runs, sink, sinceEdit, burstRuns, burstEdits, edits, exp, san>>

\* one iteration of the glyph loop
LayChar ==
    /\ lay.on /\ lay.phase = "walk" /\ lay.i <= Len(lay.message)
    /\ LET st2 == LayoutStep(lay.st, lay.message[lay.i], GlyphTable(lay.font), LayScale,
                             lay.kerning, lay.fontSize)
           placed == IF Len(st2.paths) > Len(lay.st.paths)
                     THEN <<st2.paths[Len(st2.paths)].transform[1].a>> ELSE <<>>
       IN lay' = [lay EXCEPT !.st = st2, !.i = @ + 1, !.origins = Append(@, placed)]
    /\ UNCHANGED <<ctl, pending, t, runs, sink, sinceEdit, burstRuns, burstEdits, edits, exp, san>>

\* the loop is over: the group gets the flip and goes into the canvas, and the canvas
\* into the container
LayFlip ==
    /\ lay.on /\ lay.phase = "walk" /\ lay.i > Len(lay.message)
    /\ lay' = [lay EXCEPT !.phase = "flipped", !.committed = TRUE,
                          !.group = GlyphGroup(lay.st.paths, ascentOf(lay.font), LayScale)]
    /\ UNCHANGED <<ctl, pending, t, runs, sink, sinceEdit, burstRuns, burstEdits, edits, exp, san>>

\* const bbox = gGroup.getBBox(), the canvas being rendered
LayMeasure ==
    /\ lay.on /\ lay.phase = "flipped"
    /\ lay' = [lay EXCEPT !.phase = "measured", !.bbox = GetBBox(lay.group)]
    /\ UNCHANGED <<ctl, pending, t, runs, sink, sinceEdit, burstRuns, burstEdits, edits, exp, san>>

\* the centering translation and the warning on an empty box
LayCenter ==
    /\ lay.on /\ lay.phase = "measured"
    /\ lay' = [lay EXCEPT !.phase = "centered", !.group = Centered(lay.group, lay.bbox),
                          !.note = EmptyBBox(lay.bbox)]
    /\ UNCHANGED <<ctl, pending, t, runs, sink, sinceEdit, burstRuns, burstEdits, edits, exp, san>>

LayoutNext == LayGuard \/ LayChar \/ LayFlip \/ LayMeasure \/ LayCenter

SpecLayout == LayoutInit /\ [][LayoutNext]_vars

----------------------------------------------------------------------------
(* Properties of the layout *)

LayTable == GlyphTable(lay.font)

HasGlyph(ch) == ch \in DOMAIN LayTable \/ ToLowerCase(ch) \in DOMAIN LayTable

\* the table entry the lookup order (exact, then lowercase) selects for ch
EntryFor(ch) == IF ch \in DOMAIN LayTable THEN LayTable[ch] ELSE LayTable[ToLowerCase(ch)]

\* the advance the layout uses: the entry's, or 600 when that is 0
UsedAdvance(ch) == IF EntryFor(ch).adv = Num(0) THEN Num(600) ELSE EntryFor(ch).adv

LayDone == lay.on /\ lay.phase = "centered"

\* the box of the group as displayed: the group's own transform applied as well
DisplayedBBox(group) ==
    BBoxOfPoints({ApplyTransform(EffectiveTransform(group.transform), p) : p \in GroupPoints(group)})

\* C3: after centering, the center of the displayed box of a group with at least
\* one glyph is exactly (270, 60).
CenteredAtAnchor ==
    (LayDone /\ Len(lay.group.kids) > 0) =>
        LET b == DisplayedBBox(lay.group)
        IN /\ Add(b.x, Div(b.width, Num(2))) = Num(270)
           /\ Add(b.y, Div(b.height, Num(2))) = Num(60)

\* C6: with kerning >= 0, for consecutive characters A, B that both have glyphs,
\* B's origin is A's origin + advance(A) * (fontSize / unitsPerEm) + kerning; the
\* glyph of the first character is at 0.
AdvanceAccumulates ==
    (lay.on /\ ~Less(lay.kerning, Num(0))) =>
        /\ \A k \in 1..(Len(lay.origins) - 1) :
              (HasGlyph(lay.message[k]) /\ HasGlyph(lay.message[k + 1])) =>
                  /\ lay.origins[k] # <<>> /\ lay.origins[k + 1] # <<>>
                  /\ lay.origins[k + 1][1] =
                        Add(lay.origins[k][1],
                            Add(Mul(UsedAdvance(lay.message[k]),
                                    Div(lay.fontSize, unitsPerEmOf(lay.font))),
                                lay.kerning))
        /\ (Len(lay.origins) > 0 /\ HasGlyph(lay.message[1])) => lay.origins[1] = <<Num(0)>>

\* C6 witness: three glyphs in a row walked with a positive letter gap
ThreeGlyphsWalked ==
    /\ lay.on /\ Len(lay.origins) = 3
    /\ \A k \in 1..3 : lay.origins[k] # <<>>
    /\ Less(Num(0), lay.kerning)
    /\ IsFinite(lay.origins[3][1])

AllAbsent(message) == \A k \in 1..Len(message) : ~HasGlyph(message[k])

LayEnded == lay.on /\ lay.phase \in {"centered", "skipped"}

\* C7: a message made only of characters without glyph yields no positioned glyph
\* and is reported as an empty layout (the warning is the program's only report),
\* and a layout that produced glyphs is not reported so.
EmptyLayoutReportedDistinctly ==
    LayEnded =>
        /\ AllAbsent(lay.message) => Len(lay.st.paths) = 0
        /\ (AllAbsent(lay.message) /\ lay.message # <<>>) => lay.note
        /\ Len(lay.st.paths) > 0 => ~lay.note

\* C8: with units-per-em <= 0 the layout fails before any glyph is positioned: no
\* glyph path exists and no path is placed with a scale that is not finite and
\* positive.
DegenerateEmFails ==
    (lay.on /\ ~Less(Num(0), unitsPerEmOf(lay.font))) =>
        /\ Len(lay.st.paths) = 0
        /\ Len(lay.group.kids) = 0

\* the <glyph> element of the font file that stands for key ch in the table: the last
\* one with that unicode and an outline, <<>> when there is none
GlyphElementFor(ch) ==
    LET at == {i \in 1..Len(lay.font.glyphs) :
                  lay.font.glyphs[i].u = ch /\ lay.font.glyphs[i].d # <<>>}
    IN IF at = {} THEN <<>>
       ELSE <<lay.font.glyphs[CHOOSE i \in at : \A j \in at : j <= i]>>

\* exact character first, then its lowercase form
ChosenElement(ch) ==
    IF GlyphElementFor(ch) # <<>> THEN GlyphElementFor(ch) ELSE GlyphElementFor(ToLowerCase(ch))

\* the paths appended while walking the first k characters
PathsUpTo(k) == Cardinality({j \in 1..k : lay.origins[j] # <<>>})

\* the advance of an element in the order own, font-wide, 600
AdvanceInOrder(g) ==
    IF g.adv # <<>> THEN Num(g.adv[1])
    ELSE IF lay.font.fontAdv # <<>> THEN Num(lay.font.fontAdv[1])
    ELSE Num(600)

\* C14: a character is drawn with the outline of its exact table entry when there is
\* one, else with the outline of its lowercase form's entry, else not at all; the
\* glyph after it is placed by the advance of that same entry.
CaseFallback ==
    lay.on =>
        \A k \in 1..Len(lay.origins) :
            LET el == ChosenElement(lay.message[k])
            IN /\ (el = <<>>) <=> (lay.origins[k] = <<>>)
               /\ el # <<>> =>
                    /\ lay.st.paths[PathsUpTo(k)].d = el[1].d
                    /\ (k < Len(lay.origins) /\ lay.origins[k + 1] # <<>>) =>
                          lay.origins[k + 1][1] =
                              Add(lay.origins[k][1],
                                  Add(Mul(OrElse(GlyphAdv(el[1], lay.font), Num(600)), LayScale),
                                      lay.kerning))

\* C14 witness: "Aa" walked in a font that has only the lowercase letter; both paths
\* have the outline of "a" and the same step follows the first
UppercaseDrawnAsLowercase ==
    /\ lay.on /\ lay.phase = "walk"
    /\ lay.font.glyphs = LowercaseGlyphs
    /\ lay.message = <<"A", "a", "a">>
    /\ Len(lay.origins) = 3
    /\ lay.st.paths[1].d = OutlineA /\ lay.st.paths[2].d = OutlineA
    /\ Sub(lay.origins[2][1], lay.origins[1][1]) = Sub(lay.origins[3][1], lay.origins[2][1])

\* C15: the advance the layout uses for a glyph is its own advance if given, else the
\* font-wide advance, else 600, and is not negative; with a letter gap that is not
\* negative the cursor never moves back.
AdvanceNeverNegative ==
    lay.on =>
        /\ \A k \in 1..Len(lay.origins) :
              lay.origins[k] # <<>> =>
                  LET used == AdvanceOf(LookupGlyph(LayTable, lay.message[k])[1])
                  IN /\ used = AdvanceInOrder(ChosenElement(lay.message[k])[1])
                     /\ ~Less(used, Num(0))
        /\ ~Less(lay.kerning, Num(0)) =>
              /\ \A k \in 1..Len(lay.origins) :
                    lay.origins[k] # <<>> => ~Less(lay.st.cursor, lay.origins[k][1])
              /\ \A k, j \in 1..Len(lay.origins) :
                    (k < j /\ lay.origins[k] # <<>> /\ lay.origins[j] # <<>>) =>
                        ~Less(lay.origins[j][1], lay.origins[k][1])

\* C16: the warning is raised exactly when the render has measured the glyph group
\* of a message that is not empty and the box has zero width or zero height; the
\* canvas is in the container then; the empty message gives no glyph and no warning.
ZeroBoxAdvisory ==
    lay.on =>
        /\ lay.note <=> /\ lay.phase = "centered"
                        /\ lay.message # <<>>
                        /\ (lay.bbox.width = Num(0) \/ lay.bbox.height = Num(0))
        /\ lay.note => lay.committed
        /\ lay.message = <<>> =>
              (~lay.note /\ Len(lay.st.paths) = 0 /\ Len(lay.group.kids) = 0)

\* C16 witness: a dash that is a horizontal line was measured, its box has a width
\* and no height, and the warning is up next to the committed canvas
FlatGlyphWarned ==
    /\ lay.on /\ lay.phase = "centered"
    /\ lay.message = <<"-">>
    /\ Len(lay.group.kids) = 1
    /\ lay.bbox.height = Num(0) /\ Less(Num(0), lay.bbox.width)
    /\ lay.note /\ lay.committed

\* C17: every glyph path is transformed by translate(cursor, 0) and then a scale that
\* is positive in both axes; the group's transform is the flip translate(0,
\* ascent*scale) scale(1,-1), with the centering translation in front of it once the
\* group is centered: one inversion, whatever the number of glyphs.
SingleFlipInOrder ==
    lay.on =>
        /\ \A k \in 1..Len(lay.origins) :
              lay.origins[k] # <<>> =>
                  LET tr == lay.st.paths[PathsUpTo(k)].transform
                  IN /\ Len(tr) = 2
                     /\ tr[1] = Translate(lay.origins[k][1], Num(0))
                     /\ tr[2].op = "scale"
                     /\ IsFinite(tr[2].a) /\ Less(Num(0), tr[2].a)
                     /\ IsFinite(tr[2].b) /\ Less(Num(0), tr[2].b)
        /\ lay.phase \in {"flipped", "measured"} =>
              lay.group.transform =
                  <<Translate(Num(0), Mul(ascentOf(lay.font), LayScale)), Scale(Num(1), Num(-1))>>
        /\ lay.phase = "centered" =>
              lay.group.transform =
                  <<Translate(Sub(Num(270), Add(lay.bbox.x, Div(lay.bbox.width, Num(2)))),
                              Sub(Num(60), Add(lay.bbox.y, Div(lay.bbox.height, Num(2))))),
                    Translate(Num(0), Mul(ascentOf(lay.font), LayScale)),
                    Scale(Num(1), Num(-1))>>

----------------------------------------------------------------------------
(* The export of one scene, and of its own output again.  A scene is what  *)
(* buildPreview leaves in the container: the base canvas, the group of a   *)
(* drawing that holds one shape (at the top level or inside a <g>) and,    *)
(* when text is on, the centered glyph group of the message "a-".          *)

MaxDecls == 2

StyleDecls == {"fill:none", "stroke:none", "stroke:red", "stroke-width:0.01", "opacity:1"}

\* the style texts of at most n declarations, separated by ";"
RECURSIVE StylesUpTo(_)
StylesUpTo(n) ==
    IF n = 0 THEN {<<>>}
    ELSE LET shorter == StylesUpTo(n - 1)
         IN shorter \cup {IF q = <<>> THEN <<c>> ELSE q \o <<";", c>> : q \in shorter, c \in StyleDecls}

ExportWidths == {NoWidth, WidthText(Frac(1, 100), "", TRUE), WidthText(Frac(1, 2), "", TRUE), OtherWidth}

ExportShapes ==
    {[CreateElement("path") EXCEPT !.d = <<Pt(60, 30), Pt(120, 90)>>, !.fill = f, !.stroke = k,
                                   !.sw = w, !.style = y] :
        f \in {Absent, "none", "red"}, k \in {Absent, "none", "#000"}, w \in ExportWidths,
        y \in StylesUpTo(MaxDecls)}
    \cup {Rect(0, 0, CanvasWidth, CanvasHeight), Rect(5, 1, 350, 118), Rect(0, 0, 180, 60)}

SceneText ==
    LET scale == ScaleOf(Num(DefaultFontSize), unitsPerEmOf(Hershey))
        st == LayoutFrom(LayoutStart, <<"a", "-">>, 1, GlyphTable(Hershey), scale, Num(0),
                         Num(DefaultFontSize))
        group == GlyphGroup(st.paths, ascentOf(Hershey), scale)
    IN Centered(group, GetBBox(group))

SceneOf(shape, nested, text) ==
    LET top == IF nested THEN [CreateElement("g") EXCEPT !.kids = <<shape>>] ELSE shape
        doc == [CreateElement("svg") EXCEPT !.viewBox = <<0, 0, CanvasWidth, CanvasHeight>>,
                                            !.kids = <<top>>]
        drawn == AppendChild(BaseCanvas, DrawingGroup([wellFormed |-> TRUE, doc |-> doc]))
    IN IF text THEN AppendChild(drawn, SceneText) ELSE drawn

ExportInit ==
    /\ \E shape \in ExportShapes, nested \in BOOLEAN, text \in BOOLEAN :
          exp = [on |-> TRUE, phase |-> "scene", shape |-> shape, nested |-> nested,
                 scene |-> SceneOf(shape, nested, text), once |-> BaseCanvas, twice |-> BaseCanvas]
    /\ ctl = [drawing |-> "", font |-> "", message |-> <<>>, fontSize |-> DefaultFontSize,
              kerning |-> 0]
    /\ pending = <<>>
    /\ t = 0
    /\ runs = <<>>
    /\ sink = <<>>
    /\ sinceEdit = DebounceWait
    /\ burstRuns = 0
    /\ burstEdits = 0
    /\ edits = 0
    /\ lay = NoLayout
    /\ san = NoSanitize

\* downloadSVG on the scene
ExportOnce ==
    /\ exp.on /\ exp.phase = "scene"
    /\ exp' = [exp EXCEPT !.phase = "once", !.once = Normalize(exp.scene)]
    /\ UNCHANGED <<ctl, pending, t, runs, sink, sinceEdit, burstRuns, burstEdits, edits, lay, san>>

\* the same rewrites on the exported document
ExportAgain ==
    /\ exp.on /\ exp.phase = "once"
    /\ exp' = [exp EXCEPT !.phase = "twice", !.twice = Normalize(exp.once)]
    /\ UNCHANGED <<ctl, pending, t, runs, sink, sinceEdit, burstRuns, burstEdits, edits, lay, san>>

ExportNext == ExportOnce \/ ExportAgain

SpecExport == ExportInit /\ [][ExportNext]_vars

----------------------------------------------------------------------------
(* Properties of the export *)

RECURSIVE ShapesIn(_, _)
ShapesIn(el, inGlyphs) ==
    UNION {(IF IsShape(el.kids[i]) THEN {[el |-> el.kids[i], glyph |-> inGlyphs \/ el.glyphs]}
            ELSE {})
           \cup ShapesIn(el.kids[i], inGlyphs \/ el.glyphs) : i \in 1..Len(el.kids)}

\* the stroke thickness a viewer uses, in mm: a stroke-width declaration of the
\* inline style wins over the attribute; without a usable value the default is 1
EffectiveStroke(el) ==
    IF \E i \in 1..Len(el.style) :
          /\ el.style[i] = "stroke-width:0.01" /\ AtBoundary(el.style, i)
          /\ (i = Len(el.style) \/ el.style[i + 1] = ";")
    THEN Frac(1, 100)
    ELSE IF el.sw.k = "num" /\ IsFinite(el.sw.v) THEN el.sw.v
    ELSE Num(1)

\* the drawing's shape in an exported document, <<>> when it was removed
ExportedShape(doc) ==
    LET groups == SelectSeq(doc.kids, LAMBDA k : k.tag = "g" /\ ~k.glyphs)
        tops == IF groups = <<>> THEN <<>> ELSE groups[1].kids
    IN IF tops = <<>> THEN <<>>
       ELSE IF exp.nested THEN tops[1].kids
       ELSE tops

\* C9: the export rewrites applied to their own output change nothing.
ExportIsIdempotent == (exp.on /\ exp.phase = "twice") => exp.twice = exp.once

\* C10: in the exported document every shape and glyph outline is stroked at least
\* 0.05 mm thick, and a stroke-width that was raised to the minimum is non-scaling.
ExportedStrokesAtLeastMinimum ==
    (exp.on /\ exp.phase # "scene") =>
        /\ \A s \in ShapesIn(exp.once, FALSE) : ~Less(EffectiveStroke(s.el), Frac(5, 100))
        /\ \A i \in 1..Len(ExportedShape(exp.once)) :
              LET out == ExportedShape(exp.once)[i]
              IN (out.sw = MinStrokeText /\ exp.shape.sw # MinStrokeText)
                    => out.ve = "non-scaling-stroke"

\* the value a viewer uses for a paint property: the last declaration of the inline
\* style that sets it, else the attribute
RECURSIVE StylePaint(_, _, _)
StylePaint(style, prop, sofar) ==
    IF style = <<>> THEN sofar
    ELSE StylePaint(Tail(style), prop,
                    IF style[1] = prop \o ":none" THEN "none"
                    ELSE IF style[1] = prop \o ":red" THEN "red"
                    ELSE sofar)

EffectiveFill(el) == StylePaint(el.style, "fill", el.fill)

EffectivePaintStroke(el) == StylePaint(el.style, "stroke", el.stroke)

\* fill and stroke are both given as none, by attribute or in the inline style
BothNone(el) ==
    /\ el.fill = "none" \/ StylePaint(el.style, "fill", Absent) = "none"
    /\ el.stroke = "none" \/ StylePaint(el.style, "stroke", Absent) = "none"

\* neither attribute nor inline style says anything about fill or stroke
NoPaintAtAll(el) ==
    /\ el.fill = Absent /\ el.stroke = Absent
    /\ StylePaint(el.style, "fill", Absent) = Absent
    /\ StylePaint(el.style, "stroke", Absent) = Absent

\* no exported shape is left with fill none and stroke none
NoInvisibleShapeExported ==
    (exp.on /\ exp.phase = "once") =>
        \A i \in 1..Len(ExportedShape(exp.once)) :
            LET out == ExportedShape(exp.once)[i]
            IN ~(EffectiveFill(out) = "none" /\ EffectivePaintStroke(out) = "none")

\* C12: the exported shape has been given stroke #000000 and fill none exactly when
\* the scene's shape had fill and stroke both none or no paint at all; no exported
\* shape is left with fill none and stroke none; any other shape keeps its fill and
\* stroke.
PaintRepairedExactly ==
    /\ NoInvisibleShapeExported
    /\ (exp.on /\ exp.phase = "once") =>
          \A i \in 1..Len(ExportedShape(exp.once)) :
              LET out == ExportedShape(exp.once)[i]
                  repair == BothNone(exp.shape) \/ NoPaintAtAll(exp.shape)
              IN /\ (out.stroke = "#000000" /\ out.fill = "none") <=> repair
                 /\ ~repair => (out.fill = exp.shape.fill /\ out.stroke = exp.shape.stroke)

----------------------------------------------------------------------------
(* The sanitizer on one drawing, child by child.  The drawings declare     *)
(* their viewport by a viewBox, by width and height, or not at all; their  *)
(* top-level children are at most MaxKids elements of SourceElements.      *)
(* kept records, per child visited, whether it was imported.               *)

MaxKids == 2

\* viewBox, width, height of the root element
SourceRoots ==
    {[CreateElement("svg") EXCEPT !.viewBox = v[1], !.w = v[2], !.h = v[3]] :
        v \in {<<<<0, 0, 360, 120>>, <<>>, <<>>>>, <<<<>>, <<100>>, <<50>>>>,
               <<<<>>, <<>>, <<>>>>, <<<<0, 0, 0, 0>>, <<100>>, <<50>>>>,
               <<<<0, 0, 360>>, <<100>>, <<50>>>>}}

SourceRects ==
    {Rect(q[1], q[2], z[1], z[2]) :
        q \in {<<0, 0>>, <<-721, 0>>, <<0, 241>>, <<720, 240>>},
        z \in {<<360, 120>>, <<357, 119>>, <<180, 60>>, <<100, 50>>, <<50, 25>>, <<0, 0>>}}

SourceElements ==
    SourceRects \cup {CreateElement(tg) : tg \in {"metadata", "defs", "sodipodi:namedview",
                                                  "path", "g"}}

RECURSIVE KidsUpTo(_)
KidsUpTo(n) ==
    IF n = 0 THEN {<<>>}
    ELSE LET shorter == KidsUpTo(n - 1)
         IN shorter \cup {Append(q, c) : q \in shorter, c \in SourceElements}

SanitizeInit ==
    /\ \E root \in SourceRoots, kids \in KidsUpTo(MaxKids) :
          san = [on |-> TRUE, inner |-> [root EXCEPT !.kids = kids], i |-> 1,
                 g |-> CreateElement("g"), kept |-> <<>>]
    /\ ctl = [drawing |-> "", font |-> "", message |-> <<>>, fontSize |-> DefaultFontSize,
              kerning |-> 0]
    /\ pending = <<>>
    /\ t = 0
    /\ runs = <<>>
    /\ sink = <<>>
    /\ sinceEdit = DebounceWait
    /\ burstRuns = 0
    /\ burstEdits = 0
    /\ edits = 0
    /\ lay = NoLayout
    /\ exp = NoExport

\* one call of the forEach callback: the child is skipped or imported into g
SanChild ==
    /\ san.on /\ san.i <= Len(san.inner.kids)
    /\ LET n == san.inner.kids[san.i]
           imports == ImportsNode(n, SourceViewport(san.inner))
       IN san' = [san EXCEPT !.i = @ + 1, !.kept = Append(@, imports),
                             !.g = IF imports THEN AppendChild(@, n) ELSE @]
    /\ UNCHANGED <<ctl, pending, t, runs, sink, sinceEdit, burstRuns, burstEdits, edits, lay, exp>>

SanitizeNext == SanChild

SpecSanitize == SanitizeInit /\ [][SanitizeNext]_vars

----------------------------------------------------------------------------
(* Properties of the sanitizer *)

\* the viewport the drawing declares: viewBox of four numbers, else width and height
\* where given and not 0, else 360 by 120
DeclaredViewport ==
    LET root == san.inner
    IN IF Len(root.viewBox) = 4 THEN <<Num(root.viewBox[3]), Num(root.viewBox[4])>>
       ELSE IF root.viewBox = <<>> /\ root.w # <<>> /\ root.h # <<>>
       THEN <<Num(root.w[1]), Num(root.h[1])>>
       ELSE <<Num(360), Num(120)>>

AttrOr0(a) == IF a = <<>> THEN Num(0) ELSE Num(a[1])

AtLeast(a, b) == ~Less(a, b)

Magnitude(a) == IF Less(a, Num(0)) THEN Neg(a) ELSE a

FarOutside(n) ==
    \/ Less(Mul(Num(2), DeclaredViewport[1]), Magnitude(AttrOr0(n.x)))
    \/ Less(Mul(Num(2), DeclaredViewport[2]), Magnitude(AttrOr0(n.y)))

HalfViewport(n) ==
    /\ Mul(Num(2), AttrOr0(n.w)) = DeclaredViewport[1]
    /\ Mul(Num(2), AttrOr0(n.h)) = DeclaredViewport[2]

IsEditorData(n) == n.tag \in {"metadata", "defs", "sodipodi:namedview"}

\* C13 as amended: a top-level rectangle is dropped exactly when its width and height
\* are each at least the viewport's less 0.1, or |x| or |y| exceeds twice the
\* viewport's width or height; so the rectangle of exactly the viewport's size is
\* dropped, and one of half the viewport's size within those bounds is retained
\* unless the viewport is 0.2 or less in both dimensions; every other element that is
\* not metadata, defs or a namedview is retained, and the retained keep their order.
RectangleRuleByTenth ==
    san.on =>
        /\ \A k \in 1..Len(san.kept) :
            LET n == san.inner.kids[k]
                covers == /\ AtLeast(AttrOr0(n.w), Sub(DeclaredViewport[1], Frac(1, 10)))
                          /\ AtLeast(AttrOr0(n.h), Sub(DeclaredViewport[2], Frac(1, 10)))
                small == /\ AtLeast(Frac(2, 10), DeclaredViewport[1])
                         /\ AtLeast(Frac(2, 10), DeclaredViewport[2])
            IN /\ n.tag = "rect" => (~san.kept[k] <=> (covers \/ FarOutside(n)))
               /\ (n.tag = "rect" /\ AttrOr0(n.w) = DeclaredViewport[1]
                     /\ AttrOr0(n.h) = DeclaredViewport[2]) => ~san.kept[k]
               /\ (n.tag = "rect" /\ HalfViewport(n) /\ ~FarOutside(n) /\ ~small)
                     => san.kept[k]
               /\ n.tag # "rect" => (san.kept[k] <=> ~IsEditorData(n))
        /\ san.g.kids = SelectSeq(SubSeq(san.inner.kids, 1, Len(san.kept)),
                                  LAMBDA n : \E k \in 1..Len(san.kept) :
                                                 san.inner.kids[k] = n /\ san.kept[k])

\* C13 as stated: dropped if width and height each cover at least 99% of the
\* viewport or the position is beyond twice the viewport; the half-size rectangle
\* within the bounds and every other element that is not editor data are retained.
RectangleRuleByPercent ==
    san.on =>
        \A k \in 1..Len(san.kept) :
            LET n == san.inner.kids[k]
                covers == /\ AtLeast(AttrOr0(n.w), Mul(Frac(99, 100), DeclaredViewport[1]))
                          /\ AtLeast(AttrOr0(n.h), Mul(Frac(99, 100), DeclaredViewport[2]))
            IN /\ (n.tag = "rect" /\ (covers \/ FarOutside(n))) => ~san.kept[k]
               /\ (n.tag = "rect" /\ HalfViewport(n) /\ ~FarOutside(n)) => san.kept[k]
               /\ (n.tag # "rect" /\ ~IsEditorData(n)) => san.kept[k]

\* C13 witness: of two rectangles of a 360 by 120 drawing, the one of the viewport's
\* size was dropped and the one of half that size was imported
FullDroppedHalfRetained ==
    /\ san.on /\ Len(san.kept) = 2
    /\ DeclaredViewport = <<Num(360), Num(120)>>
    /\ san.inner.kids[1] = Rect(0, 0, 360, 120) /\ ~san.kept[1]
    /\ san.inner.kids[2] = Rect(0, 0, 180, 60) /\ san.kept[2]
    /\ san.g.kids = <<Rect(0, 0, 180, 60)>>

====
